---- MODULE Spec2Model ----
(***************************************************************************)
(* A model of pngrep's PNG container parser (package main): Load, which    *)
(* reads the 8-byte signature and then chunk after chunk from an           *)
(* io.Reader, PNG.Fill / PNG.parseIHDR, which validate the first chunk as  *)
(* the IHDR header, and PNG.GetTextChunks, which grePNG calls on a         *)
(* successfully loaded image.                                              *)
(*                                                                         *)
(* The reader is an in-memory byte stream r with a read cursor pos; a      *)
(* byte is a natural number in 0..255.  Values decoded by                  *)
(* binary.BigEndian.Uint32 range over 0..2^32-1, which TLC's integers      *)
(* cannot hold, so such a value is kept as the pair of its two 16-bit     *)
(* halves [hi, lo] (value = hi * 2^16 + lo).                               *)
(***************************************************************************)
EXTENDS Integers, Sequences, FiniteSets, TLC

(* ---------------------------------------------------------------- bounds *)

\* Largest number of chunks that follow the first chunk in a generated stream.
MaxChunks == 2

\* Largest payload length of a chunk that follows the first chunk.
MaxDataLen == 1

(* ------------------------------------------------------------- constants *)

\* const PNGMagic = "\x89\x50\x4E\x47\x0D\x0A\x1A\x0A"
PNGMagic == <<137, 80, 78, 71, 13, 10, 26, 10>>

\* const iHDRlength = 13
iHDRlength == 13

\* The type tags the program and its inputs use, as their 4 ASCII bytes.
IHDR == <<73, 72, 68, 82>>
tEXt == <<116, 69, 88, 116>>
IEND == <<73, 69, 78, 68>>

(* ------------------------------------------------ 32-bit unsigned values *)

\* A 32-bit unsigned value as its two 16-bit halves.
W(h, l) == [hi |-> h, lo |-> l]

\* int(n) for a small non-negative n.
WInt(n) == W(0, n)

\* a > b on 32-bit unsigned values.
WGt(a, b) == a.hi > b.hi \/ (a.hi = b.hi /\ a.lo > b.lo)

\* binary.BigEndian.Uint32(b): b[0]<<24 | b[1]<<16 | b[2]<<8 | b[3].
Uint32(b) == W(b[1] * 256 + b[2], b[3] * 256 + b[4])

\* The untyped constant 2<<30 = 2^31 of parseIHDR's width and height checks.
TwoShl30 == W(2 * (2 ^ 14), 0)

Min(a, b) == IF a < b THEN a ELSE b

(* ----------------------------------------------------------------- errors *)

\* An error value: its kind and the arguments its message is formatted from.
Err(k, a) == [kind |-> k, args |-> a]

\* The nil error.
Nil == Err("nil", <<>>)

(* ------------------------------------------------------------------ types *)

\* var c Chunk: the zero value (Type "", Data and Checksum nil).
ZeroChunk == [Len |-> WInt(0), Type |-> <<>>, Data |-> <<>>, Checksum |-> <<>>]

\* var png PNG: the zero value.
ZeroPNG ==
  [Width |-> WInt(0), Height |-> WInt(0), Depth |-> 0, ColorType |-> 0,
   Compression |-> 0, Filter |-> 0, Interlace |-> 0,
   Chunks |-> <<>>, NumCHunks |-> 0]

\* initCt2bd with ct2bd[4] taken from ct2bd[3] instead of ct2bd[2].
initCt2bdAliased ==
  (0 :> <<1, 2, 4, 8, 16>>) @@ (2 :> <<8, 16>>) @@ (3 :> <<1, 2, 4, 8>>)
    @@ (4 :> <<1, 2, 4, 8>>) @@ (6 :> <<8, 16>>)

\* func init(): the colour type -> allowed bit depths table.
initCt2bd ==
  (0 :> <<1, 2, 4, 8, 16>>) @@ (2 :> <<8, 16>>) @@ (3 :> <<1, 2, 4, 8>>)
    @@ (4 :> <<8, 16>>) @@ (6 :> <<8, 16>>)

VARIABLES
  r,       \* the bytes of the io.Reader handed to Load
  src,     \* how r was produced: the chunks written and whether r was cut short
  pos,     \* the reader's cursor: bytes consumed so far
  pc,      \* where the program is: "start", "chunks", "fill", "done", "panic", "grepped"
  err,     \* Load's local err, the condition of its chunk loop
  png,     \* Load's local png, the value it returns
  ret,     \* the error Load returns
  text,    \* what GetTextChunks returned to grePNG
  ct2bd    \* the package variable ct2bd

vars == <<r, src, pos, pc, err, png, ret, text, ct2bd>>

(* ---------------------------------------------------------------- reading *)

\* io.ReadFull(r, buf) with len(buf) = n on an in-memory stream s read from
\* cursor p: the bytes read, their count, and the error (nil when the buffer
\* was filled, io.EOF when nothing was read, io.ErrUnexpectedEOF otherwise).
ReadFull(s, p, n) ==
  LET got == Min(n, Len(s) - p)
  IN  [buf |-> SubSeq(s, p + 1, p + got),
       n   |-> got,
       err |-> IF got = n THEN Nil
               ELSE IF got = 0 THEN Err("EOF", <<>>)
               ELSE Err("ErrUnexpectedEOF", <<>>),
       pos |-> p + got]

\* fillRead(buf, r) with len(*buf) = expected (a 32-bit value; the stream is
\* always shorter than 2^16 bytes, so a count with a non-zero high half is
\* never satisfied).
fillRead(s, p, expected) ==
  LET want == IF expected.hi > 0 THEN Len(s) - p + 1 ELSE expected.lo
      rd   == ReadFull(s, p, want)
  IN  [buf |-> rd.buf,
       pos |-> rd.pos,
       err |-> IF rd.n # want
               THEN Err("short read", <<expected.hi, expected.lo, rd.n>>)
               ELSE rd.err]

(* -------------------------------------------------------------- Chunk.Fill *)

\* func (c *Chunk) Fill(r io.Reader) error, on a zero chunk: the chunk as far
\* as it was filled in, the error, and the reader's cursor afterwards.
ChunkFill(s, p) ==
  LET rdLen  == fillRead(s, p, WInt(4))
      c1     == [ZeroChunk EXCEPT !.Len = Uint32(rdLen.buf)]
      rdType == fillRead(s, rdLen.pos, WInt(4))
      c2     == [c1 EXCEPT !.Type = rdType.buf]
      rdData == fillRead(s, rdType.pos, c2.Len)
      c3     == [c2 EXCEPT !.Data = rdData.buf]
      rdSum  == fillRead(s, rdData.pos, WInt(4))
      c4     == [c3 EXCEPT !.Checksum = rdSum.buf]
  IN  IF rdLen.err # Nil THEN [c |-> ZeroChunk, err |-> rdLen.err, pos |-> rdLen.pos]
      ELSE IF rdType.err # Nil THEN [c |-> c1, err |-> rdType.err, pos |-> rdType.pos]
      ELSE IF rdData.err # Nil THEN [c |-> c2, err |-> rdData.err, pos |-> rdData.pos]
      ELSE IF rdSum.err # Nil THEN [c |-> c3, err |-> rdSum.err, pos |-> rdSum.pos]
      ELSE [c |-> c4, err |-> Nil, pos |-> rdSum.pos]

(* ----------------------------------------------------------- PNG.parseIHDR *)

\* The result of a step of parseIHDR: the descriptor so far, the error to
\* return (Nil while no check has failed) and whether the step panicked.
PR(p, e, x) == [png |-> p, err |-> e, panic |-> x]

\* if iHDR.Len != iHDRlength { return error }
checkLen(st, c) ==
  IF st.err # Nil \/ st.panic THEN st
  ELSE IF c.Len # WInt(iHDRlength)
       THEN PR(st.png, Err("invalid IHDR length", <<c.Len.hi, c.Len.lo, iHDRlength>>), FALSE)
       ELSE st

\* invalidDim with the comparison written >= instead of >.
invalidDimStrict(v) == v = WInt(0) \/ WGt(v, TwoShl30) \/ v = TwoShl30

\* png.Width == 0 || png.Width > 2<<30, and the same test of png.Height.
invalidDim(v) == v = WInt(0) \/ WGt(v, TwoShl30)

\* png.Width = int(Uint32(tmp[0:4])) and its check; tmp[0:4] panics on a
\* payload shorter than 4 bytes.
checkWidth(st, c) ==
  IF st.err # Nil \/ st.panic THEN st
  ELSE IF Len(c.Data) < 4 THEN PR(st.png, Nil, TRUE)
  ELSE LET p == [st.png EXCEPT !.Width = Uint32(SubSeq(c.Data, 1, 4))]
       IN  IF invalidDim(p.Width)
           THEN PR(p, Err("invalid width", <<p.Width.hi, p.Width.lo>>), FALSE)
           ELSE PR(p, Nil, FALSE)

\* png.Height = int(Uint32(tmp[4:8])) and its check.
checkHeight(st, c) ==
  IF st.err # Nil \/ st.panic THEN st
  ELSE IF Len(c.Data) < 8 THEN PR(st.png, Nil, TRUE)
  ELSE LET p == [st.png EXCEPT !.Height = Uint32(SubSeq(c.Data, 5, 8))]
       IN  IF invalidDim(p.Height)
           THEN PR(p, Err("invalid height", <<p.Height.hi, p.Height.lo>>), FALSE)
           ELSE PR(p, Nil, FALSE)

\* slices.Contains(s, v)
Contains(s, v) == \E i \in 1..Len(s) : s[i] = v

\* png.Depth = int(tmp[8]); png.ColorType = int(tmp[9]); the lookup in ct2bd
\* and the membership test of the depth.
checkColor(st, c) ==
  IF st.err # Nil \/ st.panic THEN st
  ELSE IF Len(c.Data) < 10 THEN PR(st.png, Nil, TRUE)
  ELSE LET p == [st.png EXCEPT !.Depth = c.Data[9], !.ColorType = c.Data[10]]
       IN  IF p.ColorType \notin DOMAIN ct2bd
           THEN PR(p, Err("invalid color type", <<p.ColorType>>), FALSE)
           ELSE IF ~Contains(ct2bd[p.ColorType], p.Depth)
           THEN PR(p, Err("wrong depth", <<p.ColorType, p.Depth>>), FALSE)
           ELSE PR(p, Nil, FALSE)

\* if int(tmp[10]) != 0 { return error }; png.Compression = int(tmp[10])
checkCompression(st, c) ==
  IF st.err # Nil \/ st.panic THEN st
  ELSE IF Len(c.Data) < 11 THEN PR(st.png, Nil, TRUE)
  ELSE IF c.Data[11] # 0
       THEN PR(st.png, Err("invalid compression method", <<c.Data[11]>>), FALSE)
       ELSE PR([st.png EXCEPT !.Compression = c.Data[11]], Nil, FALSE)

\* if int(tmp[11]) != 0 { return error }; png.Filter = int(tmp[11])
checkFilter(st, c) ==
  IF st.err # Nil \/ st.panic THEN st
  ELSE IF Len(c.Data) < 12 THEN PR(st.png, Nil, TRUE)
  ELSE IF c.Data[12] # 0
       THEN PR(st.png, Err("invalid filter method", <<c.Data[12]>>), FALSE)
       ELSE PR([st.png EXCEPT !.Filter = c.Data[12]], Nil, FALSE)

\* if int(tmp[12]) != 0 && int(tmp[12]) != 1 { return error };
\* png.Interlace = int(tmp[12])
checkInterlace(st, c) ==
  IF st.err # Nil \/ st.panic THEN st
  ELSE IF Len(c.Data) < 13 THEN PR(st.png, Nil, TRUE)
  ELSE IF c.Data[13] # 0 /\ c.Data[13] # 1
       THEN PR(st.png, Err("invalid interlace method", <<c.Data[13]>>), FALSE)
       ELSE PR([st.png EXCEPT !.Interlace = c.Data[13]], Nil, FALSE)

\* parseIHDR with the height checked before the width.
parseIHDRHeightFirst(p, c) ==
  checkInterlace(
    checkFilter(
      checkCompression(
        checkColor(
          checkWidth(
            checkHeight(
              checkLen(PR(p, Nil, FALSE), c), c), c), c), c), c), c)

\* func (png *PNG) parseIHDR(iHDR *Chunk) error: the checks in source order,
\* each one skipped once an earlier one has returned.
parseIHDR(p, c) ==
  checkInterlace(
    checkFilter(
      checkCompression(
        checkColor(
          checkHeight(
            checkWidth(
              checkLen(PR(p, Nil, FALSE), c), c), c), c), c), c), c)

\* func (png *PNG) Fill() error: png.Chunks[0] panics on an empty list;
\* NumCHunks is set only when parseIHDR returned nil.
PNGFill(p) ==
  IF Len(p.Chunks) = 0 THEN PR(p, Nil, TRUE)
  ELSE LET st == parseIHDR(p, p.Chunks[1])
       IN  IF st.panic \/ st.err # Nil THEN st
           ELSE PR([st.png EXCEPT !.NumCHunks = Len(st.png.Chunks)], Nil, FALSE)

(* ------------------------------------------------------- PNG.GetTextChunks *)

\* func (png PNG) GetTextChunks() []string: string(c.Data) of every chunk
\* whose Type is "tEXt", in the order of png.Chunks.
RECURSIVE textOf(_)
textOf(cs) ==
  IF cs = <<>> THEN <<>>
  ELSE (IF Head(cs).Type = tEXt THEN <<Head(cs).Data>> ELSE <<>>) \o textOf(Tail(cs))

\* GetTextChunks without the test of the type tag.
GetTextChunksUnfiltered(p) == [i \in 1..Len(p.Chunks) |-> p.Chunks[i].Data]

GetTextChunks(p) == textOf(p.Chunks)

(* -------------------------------------------------------------------- Load *)

\* checkSignature comparing only the first 4 bytes with PNGMagic.
checkSignaturePrefix(s) ==
  LET rd == ReadFull(s, 0, 8)
  IN  IF rd.err # Nil THEN [err |-> rd.err, pos |-> rd.pos]
      ELSE IF SubSeq(rd.buf, 1, 4) # SubSeq(PNGMagic, 1, 4)
           THEN [err |-> Err("wrong PNG header", rd.buf \o PNGMagic), pos |-> rd.pos]
           ELSE [err |-> Nil, pos |-> rd.pos]

\* Load, lines 74-83: read 8 bytes with io.ReadFull and compare them with
\* PNGMagic; the error returned (Nil to go on) and the cursor afterwards.
checkSignature(s) ==
  LET rd == ReadFull(s, 0, 8)
  IN  IF rd.err # Nil THEN [err |-> rd.err, pos |-> rd.pos]
      ELSE IF rd.buf # PNGMagic
           THEN [err |-> Err("wrong PNG header", rd.buf \o PNGMagic), pos |-> rd.pos]
           ELSE [err |-> Nil, pos |-> rd.pos]

\* appendChunk putting the chunk in front of the list.
appendChunkFront(p, c) ==
  IF c.Type # <<>> THEN [p EXCEPT !.Chunks = <<c>> \o @] ELSE p

\* Load, lines 88-91: if c.Type != "" { png.Chunks = append(png.Chunks, &c) }
appendChunk(p, c) ==
  IF c.Type # <<>> THEN [p EXCEPT !.Chunks = Append(@, c)] ELSE p

(* ------------------------------------------------------------------ inputs *)

\* The 4 bytes binary.BigEndian.Uint32 decodes to w.
EncodeU32(w) == <<w.hi \div 256, w.hi % 256, w.lo \div 256, w.lo % 256>>

\* A chunk as it lies in a file: length, type tag, data, checksum.
EncodeChunk(c) == EncodeU32(c.Len) \o c.Type \o c.Data \o c.Checksum

RECURSIVE EncodeChunks(_)
EncodeChunks(cs) ==
  IF cs = <<>> THEN <<>> ELSE EncodeChunk(Head(cs)) \o EncodeChunks(Tail(cs))

\* A chunk whose declared length is the length of its data.
MkChunk(t, d, sum) == [Len |-> WInt(Len(d)), Type |-> t, Data |-> d, Checksum |-> sum]

\* The 13-byte IHDR payload: width, height, depth, colour type, compression,
\* filter, interlace.
IHDRData(w, h, d, ct, cm, f, il) == EncodeU32(w) \o EncodeU32(h) \o <<d, ct, cm, f, il>>

\* Widths and heights around the two limits: 0, 1, 2^31-1, 2^31, 2^31+1.
Dims == {W(0, 0), W(0, 1), W(32767, 65535), W(32768, 0), W(32768, 1)}
Depths == {1, 2, 3, 4, 8, 16}
ColorTypes == {0, 1, 2, 3, 4, 5, 6}
Methods == {0, 1}
Interlaces == {0, 1, 2}

\* First chunks with a 13-byte payload, every combination of field values.
HeaderChunks ==
  { MkChunk(IHDR, IHDRData(x[1], x[2], x[3], x[4], x[5], x[6], x[7]), <<0, 0, 0, 0>>) :
      x \in Dims \X Dims \X Depths \X ColorTypes \X Methods \X Methods \X Interlaces }

\* A header whose fields are all legal.
GoodHeaderData == IHDRData(W(0, 1), W(0, 1), 8, 2, 0, 0, 0)
GoodHeader == MkChunk(IHDR, GoodHeaderData, <<0, 0, 0, 0>>)

\* First chunks with another type tag or another declared length, over legal
\* and illegal payloads.
OddFirstChunks ==
  { MkChunk(t, SubSeq(d \o <<0>>, 1, n), <<0, 0, 0, 0>>) :
      t \in {IHDR, tEXt, IEND}, n \in {0, 12, 13, 14},
      d \in {GoodHeaderData, IHDRData(W(0, 0), W(0, 0), 3, 1, 1, 1, 2)} }

\* The chunks that follow the first one: text and end chunks with payloads
\* of 0..MaxDataLen bytes.
ExtraChunks ==
  { MkChunk(tEXt, SubSeq(<<65, 0, 66, 67>>, 1, n), <<1, 2, 3, 4>>) : n \in 0..MaxDataLen }
    \cup { MkChunk(IEND, SubSeq(<<97, 98, 99, 100>>, 1, n), <<174, 66, 96, 130>>) :
             n \in 0..MaxDataLen }

SeqsUpTo(S, n) == UNION { [1..k -> S] : k \in 0..n }

\* The bytes written for an input: signature, then the chunks, cut after
\* `cut` bytes.
Bytes(in) == SubSeq(in.sig \o EncodeChunks(in.chunks), 1, in.cut)

\* An input that was not cut short.
Whole(in) == in.cut = Len(in.sig \o EncodeChunks(in.chunks))

Input(sg, cs, k) == [sig |-> sg, chunks |-> cs, cut |-> k]

\* Streams whose signature is too short or differs from PNGMagic in one byte.
BadSigInputs ==
  { Input(PNGMagic, <<>>, k) : k \in 0..7 }
    \cup { Input([PNGMagic EXCEPT ![i] = IF v = 0 THEN 0 ELSE (@ + 1) % 256],
                 <<GoodHeader>>, 8 + Len(EncodeChunk(GoodHeader))) :
             i \in 1..8, v \in {0, 1} }

\* Complete streams of one chunk, over all the first chunks.
HeaderInputs ==
  { Input(PNGMagic, <<c>>, 8 + Len(EncodeChunk(c))) : c \in HeaderChunks \cup OddFirstChunks }

\* Streams of a good header and up to MaxChunks more chunks, cut anywhere
\* after the signature or not at all.
StreamInputs ==
  { Input(PNGMagic, x[1], x[2]) :
      x \in { y \in { <<GoodHeader>> \o t : t \in SeqsUpTo(ExtraChunks, MaxChunks) }
                      \X (8..(33 + MaxChunks * (12 + MaxDataLen))) :
                y[2] <= 8 + Len(EncodeChunks(y[1])) } }

\* Complete streams whose first chunk is not a header, followed by more chunks.
HeaderlessInputs ==
  { Input(PNGMagic, cs, 8 + Len(EncodeChunks(cs))) :
      cs \in SeqsUpTo(ExtraChunks, MaxChunks) \ {<<>>} }

Inputs == BadSigInputs \cup HeaderInputs \cup StreamInputs \cup HeaderlessInputs

(* ------------------------------------------------------------------ actions *)

Init ==
  /\ src \in Inputs
  /\ r = Bytes(src)
  /\ pos = 0
  /\ pc = "start"
  /\ err = Nil
  /\ png = ZeroPNG
  /\ ret = Nil
  /\ text = <<>>
  /\ ct2bd = initCt2bd

\* Load, lines 72-83: the signature check; a failure returns the zero png.
LoadSignature ==
  /\ pc = "start"
  /\ LET sg == checkSignature(r)
     IN  /\ pos' = sg.pos
         /\ ret' = sg.err
         /\ pc' = IF sg.err # Nil THEN "done" ELSE "chunks"
  /\ UNCHANGED <<r, src, err, png, text, ct2bd>>

\* Load, lines 85-92: one iteration of `for err == nil`; the loop is left
\* when Fill returned an error.
LoadChunk ==
  /\ pc = "chunks"
  /\ err = Nil
  /\ LET f == ChunkFill(r, pos)
     IN  /\ err' = f.err
         /\ pos' = f.pos
         /\ png' = appendChunk(png, f.c)
         /\ pc' = IF f.err = Nil THEN "chunks" ELSE "fill"
  /\ UNCHANGED <<r, src, ret, text, ct2bd>>

\* Load, lines 94-97: (&png).Fill() and the return of png with its error;
\* the loop's err is not looked at again.
LoadFill ==
  /\ pc = "fill"
  /\ LET st == PNGFill(png)
     IN  /\ png' = st.png
         /\ ret' = st.err
         /\ pc' = IF st.panic THEN "panic" ELSE "done"
  /\ UNCHANGED <<r, src, pos, err, text, ct2bd>>

\* grePNG, lines 78-83: after a Load without error, png.GetTextChunks().
GrepText ==
  /\ pc = "done"
  /\ ret = Nil
  /\ text' = GetTextChunks(png)
  /\ pc' = "grepped"
  /\ UNCHANGED <<r, src, pos, err, png, ret, ct2bd>>

Next == LoadSignature \/ LoadChunk \/ LoadFill \/ GrepText

Spec == Init /\ [][Next]_vars

(* ------------------------------------------------------- notions of claims *)

\* Load has returned to its caller.
Returned == pc \in {"done", "grepped"}

\* Load has returned or crashed.
Finished == pc \in {"done", "grepped", "panic"}

\* The stream starts with the exact signature.
SigOK == Len(r) >= 8 /\ SubSeq(r, 1, 8) = PNGMagic

\* The offsets of r at which a chunk of the input starts or the input ends.
Boundaries == { 8 + Len(EncodeChunks(SubSeq(src.chunks, 1, k))) : k \in 0..Len(src.chunks) }

\* The number of chunks of the input that lie completely in r.
CompleteChunks ==
  Cardinality({ k \in 1..Len(src.chunks) :
                  8 + Len(EncodeChunks(SubSeq(src.chunks, 1, k))) <= src.cut })

\* The stream has the signature and ends partway through a chunk.
CutMidChunk == SigOK /\ src.cut \notin Boundaries

\* The first chunk of the input lies completely in r.
HeaderRead == SigOK /\ CompleteChunks >= 1

Hdr == src.chunks[1]

\* The 4 bytes of a big-endian value v with 1 <= v <= 2^31.
DimBytesOK(b) == b # <<0, 0, 0, 0>> /\ (b[1] < 128 \/ b = <<128, 0, 0, 0>>)

\* The legality table of colour types and bit depths, as pairs.
LegalPairs ==
  {<<0, 1>>, <<0, 2>>, <<0, 4>>, <<0, 8>>, <<0, 16>>, <<2, 8>>, <<2, 16>>,
   <<3, 1>>, <<3, 2>>, <<3, 4>>, <<3, 8>>, <<4, 8>>, <<4, 16>>, <<6, 8>>, <<6, 16>>}

\* The kind of the error of the first failing check of a header chunk c with
\* its whole payload, in the order length, width, height, colour type, bit
\* depth, compression, filter, interlace ("nil" when none fails).
FirstInvalid(c) ==
  IF c.Len # WInt(13) THEN "invalid IHDR length"
  ELSE IF ~DimBytesOK(SubSeq(c.Data, 1, 4)) THEN "invalid width"
  ELSE IF ~DimBytesOK(SubSeq(c.Data, 5, 8)) THEN "invalid height"
  ELSE IF c.Data[10] \notin {0, 2, 3, 4, 6} THEN "invalid color type"
  ELSE IF <<c.Data[10], c.Data[9]>> \notin LegalPairs THEN "wrong depth"
  ELSE IF c.Data[11] # 0 THEN "invalid compression method"
  ELSE IF c.Data[12] # 0 THEN "invalid filter method"
  ELSE IF c.Data[13] \notin {0, 1} THEN "invalid interlace method"
  ELSE "nil"

\* The number of invalid fields of a 13-byte header payload.
InvalidFields(c) ==
  Cardinality({ k \in 1..6 :
    \/ k = 1 /\ ~DimBytesOK(SubSeq(c.Data, 1, 4))
    \/ k = 2 /\ ~DimBytesOK(SubSeq(c.Data, 5, 8))
    \/ k = 3 /\ <<c.Data[10], c.Data[9]>> \notin LegalPairs
    \/ k = 4 /\ c.Data[11] # 0
    \/ k = 5 /\ c.Data[12] # 0
    \/ k = 6 /\ c.Data[13] \notin {0, 1} })

\* A header chunk of 13 bytes whose fields other than width and height are valid.
OtherThanDimsValid(c) ==
  /\ c.Len = WInt(13)
  /\ <<c.Data[10], c.Data[9]>> \in LegalPairs
  /\ c.Data[11] = 0 /\ c.Data[12] = 0 /\ c.Data[13] \in {0, 1}

\* A header chunk of 13 bytes whose fields other than colour type and bit
\* depth are valid.
OtherThanColorValid(c) ==
  /\ c.Len = WInt(13)
  /\ DimBytesOK(SubSeq(c.Data, 1, 4)) /\ DimBytesOK(SubSeq(c.Data, 5, 8))
  /\ c.Data[11] = 0 /\ c.Data[12] = 0 /\ c.Data[13] \in {0, 1}

\* The index among the text chunks of chunk i of cs.
TextRank(cs, i) == Cardinality({ j \in 1..i : cs[j].Type = tEXt })

(* ------------------------------------------------------------------ claims *)

\* C1 (as claimed): when the stream has a valid signature and ends partway
\* through a chunk, what Load returns is a short-read error, and its chunk
\* list holds only the chunks that were read completely.
C1_ShortReadSurfaced ==
  (Returned /\ CutMidChunk) =>
    /\ ret.kind = "short read"
    /\ Len(png.Chunks) = CompleteChunks

\* C2 (as claimed): on a stream that is the signature and nothing else, Load
\* returns a "missing header chunk" error and does not crash.
C2_MissingHeaderError ==
  (Finished /\ r = PNGMagic) =>
    (pc # "panic" /\ ret.kind = "missing header chunk")

\* C3 (as claimed): whenever Load returns an error, the descriptor returned
\* with it is the unpopulated one.
C3_AllOrNothing == (Returned /\ ret # Nil) => png = ZeroPNG

\* C4: for a complete stream with the signature whose first chunk is a valid
\* header, Load returns without error; and whenever Load returns without
\* error on a complete stream, its chunk list is the list of the chunks
\* written, in order, and NumCHunks is their number.
C4_ChunksPreserved ==
  /\ (Finished /\ SigOK /\ Whole(src) /\ Len(src.chunks) >= 1
        /\ FirstInvalid(Hdr) = "nil") => (pc # "panic" /\ ret = Nil)
  /\ (Returned /\ SigOK /\ Whole(src) /\ ret = Nil) =>
       (png.Chunks = src.chunks /\ png.NumCHunks = Len(src.chunks))

C4_Witness ==
  /\ pc = "done" /\ ret = Nil /\ Whole(src)
  /\ Len(png.Chunks) >= 3
  /\ png.Chunks[2] # png.Chunks[3]
  /\ png.Chunks[1].Type = IHDR

\* C5 (as claimed): a stream that does not start with the exact signature,
\* shorter than 8 bytes included, fails with the "wrong header" error that
\* reports the received and the expected bytes; a stream that starts with
\* the signature never fails this check.
C5_WrongHeaderAlways ==
  pc # "start" =>
    IF SigOK THEN ret.kind \notin {"wrong PNG header", "EOF", "ErrUnexpectedEOF"}
    ELSE pc = "done" /\ ret = Err("wrong PNG header", SubSeq(r, 1, Min(8, Len(r))) \o PNGMagic)

\* C5 (amended): a stream of at least 8 bytes whose first 8 bytes differ from
\* the signature fails with the "wrong header" error that reports the
\* received and the expected bytes; a stream shorter than 8 bytes fails with
\* the reader's error (io.EOF when empty, io.ErrUnexpectedEOF otherwise); a
\* stream that starts with the signature never fails this check.
C5_SignatureCheck ==
  pc # "start" =>
    IF SigOK THEN ret.kind \notin {"wrong PNG header", "EOF", "ErrUnexpectedEOF"}
    ELSE /\ pc = "done"
         /\ png = ZeroPNG
         /\ ret = IF Len(r) = 0 THEN Err("EOF", <<>>)
                  ELSE IF Len(r) < 8 THEN Err("ErrUnexpectedEOF", <<>>)
                  ELSE Err("wrong PNG header", SubSeq(r, 1, 8) \o PNGMagic)

C5_Witness ==
  /\ pc = "done" /\ ret.kind = "wrong PNG header"
  /\ Len(r) > 8
  /\ SubSeq(r, 1, 4) = SubSeq(PNGMagic, 1, 4)
  /\ SubSeq(r, 6, 8) = SubSeq(PNGMagic, 6, 8)

\* C6 (as claimed): Load returns without error only if the first chunk has
\* the type tag "IHDR".
C6_FirstChunkIsIHDR ==
  (Returned /\ SigOK /\ ret = Nil) => png.Chunks[1].Type = IHDR

C8_LegalityTable ==
  /\ \A ct \in 0..7, d \in 0..17 :
       (ct \in DOMAIN ct2bd /\ Contains(ct2bd[ct], d)) <=> <<ct, d>> \in LegalPairs
  /\ (Finished /\ HeaderRead /\ OtherThanColorValid(Hdr)) =>
       /\ pc # "panic"
       /\ ret.kind = IF Hdr.Data[10] \notin {0, 2, 3, 4, 6} THEN "invalid color type"
                     ELSE IF <<Hdr.Data[10], Hdr.Data[9]>> \notin LegalPairs THEN "wrong depth"
                     ELSE "nil"
       /\ ret = Nil => (png.ColorType = Hdr.Data[10] /\ png.Depth = Hdr.Data[9])

C8_Witness ==
  /\ pc = "done" /\ HeaderRead /\ OtherThanColorValid(Hdr)
  /\ ret = Err("wrong depth", <<2, 1>>)

\* C9: what GetTextChunks returns has one entry per chunk of type "tEXt",
\* the payload of the k-th such chunk at index k, and nothing else; it is
\* empty when no chunk has that type.
C9_TextChunks ==
  pc = "grepped" =>
    /\ Len(text) = TextRank(png.Chunks, Len(png.Chunks))
    /\ \A i \in 1..Len(png.Chunks) :
         png.Chunks[i].Type = tEXt => text[TextRank(png.Chunks, i)] = png.Chunks[i].Data

C9_Witness ==
  /\ pc = "grepped"
  /\ Len(text) = 2 /\ text[1] # text[2]
  /\ Len(png.Chunks) = 3

\* C10: when header validation returns, its error is the one of the first
\* failing check in the order length, width, height, colour type, bit depth,
\* compression, filter, interlace, and nil when none fails; a declared
\* length other than 13 gives the length error with the declared and the
\* expected length.
C10_FirstFailingCheck ==
  (Finished /\ HeaderRead) =>
    /\ pc # "panic"
    /\ ret.kind = FirstInvalid(Hdr)
    /\ Hdr.Len # WInt(13) =>
         ret = Err("invalid IHDR length", <<Hdr.Len.hi, Hdr.Len.lo, 13>>)

C10_Witness ==
  /\ pc = "done" /\ HeaderRead /\ Hdr.Len = WInt(13)
  /\ ret.kind = "invalid width"
  /\ InvalidFields(Hdr) >= 4

====
